---------------------------- MODULE Spec2Model ----------------------------
(***************************************************************************)
(* Model of bilancio_analyzer.py: the reclassification of a trial balance  *)
(* into a balance sheet (riclassifica_sp) and an income statement          *)
(* (riclassifica_ce), the closure check (verifica_quadratura) and the      *)
(* ratio engine (calcola_kpi).                                             *)
(*                                                                         *)
(* Amounts are exact rationals <<n, d>> in lowest terms with d > 0, so     *)
(* that importo * perc_breve_banche is computed exactly.  +infinity        *)
(* (np.inf) is <<1, 0>>.  An account code is a sequence of one-character   *)
(* strings, so that strip() and the slice [:5] are computed, not assumed.  *)
(***************************************************************************)
EXTENDS Integers, Sequences, FiniteSets, TLC

VARIABLES df, perc, pc, quadratura, sp, totali, ce, kpi, semafori, errore, esito,
          session_state

vars == <<df, perc, pc, quadratura, sp, totali, ce, kpi, semafori, errore, esito,
          session_state>>

---------------------------------------------------------------------------
(* Exact arithmetic *)

Abs(n) == IF n < 0 THEN -n ELSE n

RECURSIVE GCD(_, _)
GCD(a, b) == IF b = 0 THEN a ELSE GCD(b, a % b)

\* n/d in lowest terms with a positive denominator (d # 0)
Norm(n, d) ==
  LET g == GCD(Abs(n), Abs(d))
      s == IF d < 0 THEN -1 ELSE 1
  IN  <<(s * n) \div g, (s * d) \div g>>

Q(n) == <<n, 1>>
Q0 == Q(0)
Inf == <<1, 0>>

RAdd(a, b) == Norm(a[1] * b[2] + b[1] * a[2], a[2] * b[2])
RSub(a, b) == Norm(a[1] * b[2] - b[1] * a[2], a[2] * b[2])
RMul(a, b) == Norm(a[1] * b[1], a[2] * b[2])
RAbs(a) == <<Abs(a[1]), a[2]>>
RLt(a, b) == a[1] * b[2] < b[1] * a[2]
RLe(a, b) == a[1] * b[2] <= b[1] * a[2]
RGe(a, b) == RLe(b, a)

\* a / b as Python evaluates it: ZeroDivisionError when b is 0
ZeroDivisionError == <<0, 0>>
Div(a, b) == IF b[1] = 0 THEN ZeroDivisionError ELSE Norm(a[1] * b[2], a[2] * b[1])

EmptyMap == [x \in {} |-> Q0]

\* dict.get(k, 0)
Get(d, k) == IF k \in DOMAIN d THEN d[k] ELSE Q0

\* sum(d.values())
RECURSIVE SumValues(_)
SumValues(d) ==
  IF DOMAIN d = {} THEN Q0
  ELSE LET k == CHOOSE x \in DOMAIN d : TRUE
       IN  RAdd(d[k], SumValues([x \in DOMAIN d \ {k} |-> d[x]]))

---------------------------------------------------------------------------
(* Classification tables *)

SP_MAP ==
     (<<"0","1","0","1","0">> :> <<"Attivo Circolante", "Liquidita immediate">>)
  @@ (<<"0","1","0","2","0">> :> <<"Attivo Circolante", "Liquidita immediate">>)
  @@ (<<"0","1","0","2","5">> :> <<"Attivo Immobilizzato", "Immobilizzazioni finanziarie">>)
  @@ (<<"0","1","0","3","0">> :> <<"Attivo Immobilizzato", "Immobilizzazioni finanziarie">>)
  @@ (<<"0","1","0","4","0">> :> <<"Attivo Circolante", "Crediti vs clienti">>)
  @@ (<<"0","1","0","5","0">> :> <<"Attivo Circolante", "Crediti vs altri">>)
  @@ (<<"0","1","0","6","0">> :> <<"Attivo Circolante", "Rimanenze">>)
  @@ (<<"0","1","0","6","1">> :> <<"Attivo Circolante", "Rimanenze">>)
  @@ (<<"0","1","0","7","0">> :> <<"Attivo Immobilizzato", "Immobilizzazioni materiali">>)
  @@ (<<"0","1","0","8","0">> :> <<"Attivo Immobilizzato", "Immobilizzazioni immateriali">>)
  @@ (<<"0","1","0","9","0">> :> <<"Attivo Circolante", "Ratei e risconti attivi">>)
  @@ (<<"0","1","1","0","0">> :> <<"Attivo Circolante", "Crediti tributari">>)
  @@ (<<"0","2","0","1","0">> :> <<"Passivo Corrente", "Debiti vs fornitori">>)
  @@ (<<"0","2","0","2","0">> :> <<"Passivo Corrente", "Debiti tributari">>)
  @@ (<<"0","2","0","3","0">> :> <<"Passivo Corrente", "Debiti vs banche">>)
  @@ (<<"0","2","0","4","0">> :> <<"Passivo Corrente", "Debiti vs banche">>)
  @@ (<<"0","2","0","5","0">> :> <<"Passivo Corrente", "Altri debiti (dipendenti)">>)
  @@ (<<"0","2","0","6","0">> :> <<"Passivo Corrente", "Debiti tributari e previdenziali">>)
  @@ (<<"0","2","0","6","1">> :> <<"Passivo Corrente", "Debiti tributari e previdenziali">>)
  @@ (<<"0","2","0","7","0">> :> <<"Passivo Corrente", "Altri debiti (diversi)">>)
  @@ (<<"0","2","0","8","0">> :> <<"Passivo Corrente", "Debiti tributari">>)
  @@ (<<"0","2","1","0","0">> :> <<"Passivo Consolidato", "Fondi rischi e oneri">>)
  @@ (<<"0","2","1","1","0">> :> <<"Attivo Immobilizzato", "F.do ammortamento">>)
  @@ (<<"0","2","1","2","0">> :> <<"Passivo Consolidato", "F.do TFR">>)
  @@ (<<"0","2","2","0","0">> :> <<"Patrimonio Netto", "Capitale e riserve">>)
  @@ (<<"0","2","1","3","0">> :> <<"Passivo Corrente", "Ratei e risconti passivi">>)

CE_MAP ==
     (<<"0","4","0","1","0">> :> "Ricavi")
  @@ (<<"0","4","0","1","3">> :> "Ricavi")
  @@ (<<"0","4","0","1","5">> :> "Ricavi")
  @@ (<<"0","4","0","3","0">> :> "Ricavi")
  @@ (<<"0","3","0","1","0">> :> "Acquisti")
  @@ (<<"0","3","0","1","5">> :> "Acquisti")
  @@ (<<"0","3","0","2","0">> :> "Rimanenze iniziali")
  @@ (<<"0","4","0","8","0">> :> "Rimanenze finali")
  @@ (<<"0","3","0","6","0">> :> "Costo personale diretto")
  @@ (<<"0","3","0","3","0">> :> "Costi commerciali/amm/ge")
  @@ (<<"0","3","0","4","0">> :> "Costi commerciali/amm/ge")
  @@ (<<"0","3","0","5","0">> :> "Costi commerciali/amm/ge")
  @@ (<<"0","3","0","6","1">> :> "Costi commerciali/amm/ge")
  @@ (<<"0","3","0","6","2">> :> "Costi commerciali/amm/ge")
  @@ (<<"0","3","1","0","0">> :> "Costi commerciali/amm/ge")
  @@ (<<"0","3","0","7","5">> :> "Accantonamenti")
  @@ (<<"0","3","0","7","0">> :> "Ammortamenti")
  @@ (<<"0","3","0","8","0">> :> "Oneri finanziari")
  @@ (<<"0","3","0","9","0">> :> "Oneri finanziari")
  @@ (<<"0","4","0","2","0">> :> "Proventi finanziari")

\* str.strip(): leading and trailing blanks removed
RECURSIVE strip(_)
strip(s) ==
  IF s = <<>> THEN s
  ELSE IF Head(s) = " " THEN strip(Tail(s))
  ELSE IF s[Len(s)] = " " THEN strip(SubSeq(s, 1, Len(s) - 1))
  ELSE s

\* a short code is padded with zeros to five characters
get_prefisso_mut(conto) ==
  LET s == strip(conto)
  IN  IF Len(s) >= 5 THEN SubSeq(s, 1, 5)
      ELSE s \o [i \in 1..(5 - Len(s)) |-> "0"]

get_prefisso(conto) ==
  LET s == strip(conto)
  IN  IF Len(s) >= 5 THEN SubSeq(s, 1, 5) ELSE s

---------------------------------------------------------------------------
(* verifica_quadratura *)

RECURSIVE calcola_totale_sezione(_, _)
calcola_totale_sezione(d, sezione) ==
  IF d = <<>> THEN Q0
  ELSE LET r == d[Len(d)]
           t == calcola_totale_sezione(SubSeq(d, 1, Len(d) - 1), sezione)
       IN  IF r.sezbil = sezione THEN RAdd(t, r.importo) ELSE t

verifica_quadratura(d) ==
  LET tot_attivo  == calcola_totale_sezione(d, "A")
      tot_passivo == calcola_totale_sezione(d, "P")
      tot_ricavi  == calcola_totale_sezione(d, "R")
      tot_costi   == calcola_totale_sezione(d, "C")
  IN     ("Totale Attivo (A)"  :> tot_attivo)
      @@ ("Totale Passivo (P)" :> tot_passivo)
      @@ ("Differenza SP"      :> RSub(tot_attivo, tot_passivo))
      @@ ("Totale Ricavi (R)"  :> tot_ricavi)
      @@ ("Totale Costi (C)"   :> tot_costi)
      @@ ("Utile/Perdita"      :> RSub(tot_ricavi, tot_costi))

---------------------------------------------------------------------------
(* riclassifica_sp *)

Macro == {"Attivo Immobilizzato", "Attivo Circolante", "Passivo Corrente",
          "Passivo Consolidato", "Patrimonio Netto"}

\* the amount replaces what the bucket holds
Accumula_mutSovrascrive(d, macro, sotto, v) ==
  LET b == d[macro]
  IN  [d EXCEPT ![macro] = IF sotto \in DOMAIN b THEN [b EXCEPT ![sotto] = v]
                           ELSE b @@ (sotto :> v)]

\* the row that creates the bucket is not added to it
Accumula_mutPrimaPersa(d, macro, sotto, v) ==
  LET b == d[macro]
  IN  [d EXCEPT ![macro] = IF sotto \in DOMAIN b THEN [b EXCEPT ![sotto] = RAdd(@, v)]
                           ELSE b @@ (sotto :> Q0)]

\* if sotto not in d[macro]: d[macro][sotto] = 0 ; d[macro][sotto] += v
Accumula(d, macro, sotto, v) ==
  LET d1 == IF macro \in DOMAIN d THEN d ELSE d @@ (macro :> EmptyMap)
      b  == d1[macro]
      b1 == IF sotto \in DOMAIN b THEN b ELSE b @@ (sotto :> Q0)
  IN  [d1 EXCEPT ![macro] = [b1 EXCEPT ![sotto] = RAdd(b1[sotto], v)]]

SpInit == [sp |-> [m \in Macro |-> EmptyMap], f_amm |-> Q0, crediti_tributari |-> Q0]

\* <<quota_breve, quota_ml>> of a bank debt
QuoteBanche_mut(importo, p) == <<RMul(importo, p), importo>>

QuoteBanche(importo, p) ==
  LET quota_breve == RMul(importo, p)
      quota_ml == RSub(importo, quota_breve)
  IN  <<quota_breve, quota_ml>>

\* the body of the loop over the rows
SpRiga(st, row, p) ==
  LET importo == row.importo
      pref == get_prefisso(row.conto)
  IN  IF pref = <<"0","2","0","2","0">> /\ RLt(importo, Q0)
      THEN [st EXCEPT !.crediti_tributari = RAdd(@, RAbs(importo))]
      ELSE IF pref \in DOMAIN SP_MAP
      THEN LET macro == SP_MAP[pref][1]
               sotto == SP_MAP[pref][2]
           IN  IF pref = <<"0","2","1","1","0">>
               THEN [st EXCEPT !.f_amm = RAdd(@, importo)]
               ELSE IF pref \in {<<"0","2","0","3","0">>, <<"0","2","0","4","0">>}
               THEN LET quota_breve == QuoteBanche(importo, p)[1]
                        quota_ml == QuoteBanche(importo, p)[2]
                    IN  [st EXCEPT !.sp =
                           Accumula(Accumula(@, "Passivo Corrente", "Debiti vs banche", quota_breve),
                                    "Passivo Consolidato", "Debiti vs banche ML", quota_ml)]
               ELSE [st EXCEPT !.sp = Accumula(@, macro, sotto, importo)]
      ELSE st

RECURSIVE SpLoop(_, _)
SpLoop(d, p) ==
  IF d = <<>> THEN SpInit
  ELSE SpRiga(SpLoop(SubSeq(d, 1, Len(d) - 1), p), d[Len(d)], p)

\* the tax receivables are never added
SpChiusura_mutSenzaCrediti(st) ==
  IF "Immobilizzazioni materiali" \in DOMAIN st.sp["Attivo Immobilizzato"]
  THEN [st.sp EXCEPT !["Attivo Immobilizzato"]["Immobilizzazioni materiali"] = RSub(@, st.f_amm)]
  ELSE st.sp

\* the fund is subtracted even when no tangible asset was seen
SpChiusura_mut(st) ==
  LET s1 == IF RLt(Q0, st.crediti_tributari)
            THEN Accumula(st.sp, "Attivo Circolante", "Crediti tributari", st.crediti_tributari)
            ELSE st.sp
  IN  Accumula(s1, "Attivo Immobilizzato", "Immobilizzazioni materiali", RSub(Q0, st.f_amm))

\* after the loop: tax receivables, net tangible assets
SpChiusura(st) ==
  LET s1 == IF RLt(Q0, st.crediti_tributari)
            THEN Accumula(st.sp, "Attivo Circolante", "Crediti tributari", st.crediti_tributari)
            ELSE st.sp
  IN  IF "Immobilizzazioni materiali" \in DOMAIN s1["Attivo Immobilizzato"]
      THEN [s1 EXCEPT !["Attivo Immobilizzato"]["Immobilizzazioni materiali"] = RSub(@, st.f_amm)]
      ELSE s1

\* totali = {macro: sum(sp[macro].values()) for macro in sp}
Totali(s) == [m \in DOMAIN s |-> SumValues(s[m])]

\* returns <<sp, totali>>
riclassifica_sp(d, p) ==
  LET s == SpChiusura(SpLoop(d, p))
  IN  <<s, Totali(s)>>

---------------------------------------------------------------------------
(* riclassifica_ce *)

\* the body of the loop over the rows: the raw groups
CeRiga(gruppi, row) ==
  LET pref == get_prefisso(row.conto)
  IN  IF pref \in DOMAIN CE_MAP
      THEN LET voce == CE_MAP[pref]
               g == IF voce \in DOMAIN gruppi THEN gruppi ELSE gruppi @@ (voce :> Q0)
           IN  IF row.sezbil = "R"
               THEN [g EXCEPT ![voce] = RAdd(@, row.importo)]
               ELSE [g EXCEPT ![voce] = RSub(@, row.importo)]
      ELSE gruppi

RECURSIVE CeLoop(_)
CeLoop(d) ==
  IF d = <<>> THEN EmptyMap
  ELSE CeRiga(CeLoop(SubSeq(d, 1, Len(d) - 1)), d[Len(d)])

\* ebit = ebitda - ammortamenti - accantonamenti
Ebit_mut(ebitda, ammortamenti, accantonamenti) ==
  RSub(ebitda, RSub(ammortamenti, accantonamenti))

Ebit(ebitda, ammortamenti, accantonamenti) ==
  RSub(RSub(ebitda, ammortamenti), accantonamenti)

\* the cascade of derived items over the raw groups
CeCascata(gruppi, utile_netto) ==
  LET ricavi == Get(gruppi, "Ricavi")
      rim_iniz == Get(gruppi, "Rimanenze iniziali")
      rim_fin == Get(gruppi, "Rimanenze finali")
      var_rim == RSub(rim_fin, rim_iniz)
      valore_produzione == RAdd(ricavi, var_rim)
      acquisti == Get(gruppi, "Acquisti")
      costo_personale_dir == Get(gruppi, "Costo personale diretto")
      costo_del_venduto == RAdd(acquisti, costo_personale_dir)
      margine_industriale == RSub(valore_produzione, costo_del_venduto)
      costi_commerciali == Get(gruppi, "Costi commerciali/amm/ge")
      ebitda == RSub(margine_industriale, costi_commerciali)
      ammortamenti == Get(gruppi, "Ammortamenti")
      accantonamenti == Get(gruppi, "Accantonamenti")
      ebit == Ebit(ebitda, ammortamenti, accantonamenti)
      oneri_fin == Get(gruppi, "Oneri finanziari")
      prov_fin == Get(gruppi, "Proventi finanziari")
      saldo_fin == RSub(prov_fin, oneri_fin)
      risultato_ante_imposte == RAdd(ebit, saldo_fin)
  IN     ("Ricavi" :> ricavi)
      @@ ("Variazione rimanenze" :> var_rim)
      @@ ("Valore della produzione" :> valore_produzione)
      @@ ("Acquisti" :> acquisti)
      @@ ("Costo personale diretto" :> costo_personale_dir)
      @@ ("Costo del venduto" :> costo_del_venduto)
      @@ ("Margine industriale" :> margine_industriale)
      @@ ("Costi commerciali/amm/ge" :> costi_commerciali)
      @@ ("EBITDA" :> ebitda)
      @@ ("Ammortamenti" :> ammortamenti)
      @@ ("Accantonamenti" :> accantonamenti)
      @@ ("EBIT" :> ebit)
      @@ ("Saldo gestione finanziaria" :> saldo_fin)
      @@ ("Risultato ante imposte" :> risultato_ante_imposte)
      @@ ("Utile netto (da quadratura)" :> utile_netto)

riclassifica_ce(d) ==
  CeCascata(CeLoop(d),
            RSub(calcola_totale_sezione(d, "R"), calcola_totale_sezione(d, "C")))

---------------------------------------------------------------------------
(* calcola_kpi *)

Kpi == {"Current ratio", "Quick ratio", "Giorni credito", "Leverage",
        "Copertura oneri finanziari", "ROE", "ROI", "ROS", "Rotazione magazzino"}

\* [soglia_verde, soglia_gialla]
soglie ==
     ("Current ratio" :> <<Q(2), <<3, 2>> >>)
  @@ ("Quick ratio" :> <<Q(1), <<7, 10>> >>)
  @@ ("Giorni credito" :> <<Q(60), Q(90)>>)
  @@ ("Leverage" :> <<Q(2), Q(3)>>)
  @@ ("Copertura oneri finanziari" :> <<Q(5), Q(3)>>)
  @@ ("ROE" :> << <<1, 10>>, <<1, 20>> >>)
  @@ ("ROI" :> << <<2, 25>>, <<1, 25>> >>)
  @@ ("ROS" :> << <<1, 20>>, <<1, 50>> >>)
  @@ ("Rotazione magazzino" :> <<Q(6), Q(3)>>)

\* num / den if den != 0 else sentinella
Rapporto_mut(num, den, sentinella) == Div(num, den)

Rapporto(num, den, sentinella) == IF den # Q0 THEN Div(num, den) ELSE sentinella

\* the nine ratios, each with its zero-denominator sentinel
KpiValori(sp_totali, sp_dett, c, quad) ==
  LET att_circ == Get(sp_totali, "Attivo Circolante")
      pass_corr == Get(sp_totali, "Passivo Corrente")
      liquidita_imm == Get(sp_dett["Attivo Circolante"], "Liquidita immediate")
      crediti_vs_clienti == Get(sp_dett["Attivo Circolante"], "Crediti vs clienti")
      crediti_vs_altri == Get(sp_dett["Attivo Circolante"], "Crediti vs altri")
      crediti_trib == Get(sp_dett["Attivo Circolante"], "Crediti tributari")
      liquidita_diff == RAdd(RAdd(crediti_vs_clienti, crediti_vs_altri), crediti_trib)
      rimanenze == Get(sp_dett["Attivo Circolante"], "Rimanenze")
      pn == Get(sp_totali, "Patrimonio Netto")
      pass_cons == Get(sp_totali, "Passivo Consolidato")
      ricavi == Get(c, "Ricavi")
      ebitda == Get(c, "EBITDA")
      ebit == Get(c, "EBIT")
      utile == quad["Utile/Perdita"]
      oneri_0 == Get(c, "Oneri finanziari")
      oneri_fin == IF RLt(oneri_0, Q0) THEN RAbs(oneri_0) ELSE oneri_0
      tot_attivo == RAdd(Get(sp_totali, "Attivo Immobilizzato"), Get(sp_totali, "Attivo Circolante"))
      costo_venduto == Get(c, "Costo del venduto")
  IN     ("Current ratio" :> Rapporto(att_circ, pass_corr, Inf))
      @@ ("Quick ratio" :> Rapporto(RAdd(liquidita_imm, liquidita_diff), pass_corr, Inf))
      @@ ("Giorni credito" :> IF ricavi # Q0
                              THEN RMul(Div(crediti_vs_clienti, ricavi), Q(365)) ELSE Q0)
      @@ ("Leverage" :> Rapporto(RAdd(pass_corr, pass_cons), pn, Inf))
      @@ ("Copertura oneri finanziari" :> Rapporto(ebitda, oneri_fin, Inf))
      @@ ("ROE" :> Rapporto(utile, pn, Q0))
      @@ ("ROI" :> Rapporto(ebit, tot_attivo, Q0))
      @@ ("ROS" :> Rapporto(ebit, ricavi, Q0))
      @@ ("Rotazione magazzino" :> Rapporto(costo_venduto, rimanenze, Q0))

\* the thresholds themselves get the less favourable indicator
Semaforo_mut(k, v) ==
  LET soglia_verde == soglie[k][1]
      soglia_gialla == soglie[k][2]
  IN  IF k \in {"Giorni credito", "Leverage"}
      THEN IF RLt(v, soglia_verde) THEN "verde"
           ELSE IF RLt(v, soglia_gialla) THEN "giallo"
           ELSE "rosso"
      ELSE IF RLt(soglia_verde, v) THEN "verde"
           ELSE IF RLt(soglia_gialla, v) THEN "giallo"
           ELSE "rosso"

\* the indicator of ratio k with value v
Semaforo(k, v) ==
  LET soglia_verde == soglie[k][1]
      soglia_gialla == soglie[k][2]
  IN  IF k \in {"Giorni credito", "Leverage"}
      THEN IF RLe(v, soglia_verde) THEN "verde"
           ELSE IF RLe(v, soglia_gialla) THEN "giallo"
           ELSE "rosso"
      ELSE IF RGe(v, soglia_verde) THEN "verde"
           ELSE IF RGe(v, soglia_gialla) THEN "giallo"
           ELSE "rosso"

\* returns the ratios, the indicators and whether a division raised
calcola_kpi(sp_totali, sp_dett, c, quad) ==
  LET k == KpiValori(sp_totali, sp_dett, c, quad)
  IN  [kpi |-> k,
       semafori |-> [x \in DOMAIN k |-> Semaforo(x, k[x])],
       errore |-> \E x \in DOMAIN k : k[x] = ZeroDivisionError]

---------------------------------------------------------------------------
(* The record sets the functions are run on *)

MaxRighe == 3

\* perc_breve_banche as main passes it (0.1), and the other ratios tried
PercDefault == <<1, 10>>
Percentuali == {Q(0), PercDefault, <<1, 3>>, Q(1)}

Importi == {Q(-1), Q(2)}

\* the section a chart of accounts gives a code: 01 assets, 02 liabilities,
\* 03 costs, 04 revenues
SezioneDelConto(conto) ==
  LET s == strip(conto)
  IN  IF Len(s) < 2 THEN "A"
      ELSE IF s[2] = "1" THEN "A"
      ELSE IF s[2] = "2" THEN "P"
      ELSE IF s[2] = "3" THEN "C"
      ELSE IF s[2] = "4" THEN "R"
      ELSE "C"

\* the sheet for the balance-sheet rules: tangible assets and their
\* depreciation fund, the tax debts and receivables, the bank debts, and one
\* plain account beside each
ContiSP == {<<"0","1","0","7","0">>, <<"0","1","0","8","0">>, <<"0","2","1","1","0">>,
            <<"0","1","1","0","0">>, <<"0","2","0","2","0">>, <<"0","2","0","8","0">>,
            <<"0","2","0","1","0">>, <<"0","2","0","3","0">>, <<"0","2","0","4","0">>}

\* the sheet for the whole run: the accounts the ratios read, a prefix in no
\* table, a code shorter than five characters, and a code longer than its
\* prefix with blanks around it
Conti == {<<"0","1","0","1","0">>, <<"0","1","0","4","0">>, <<"0","1","0","6","0">>,
          <<"0","2","0","1","0">>, <<"0","2","0","3","0">>, <<"0","2","2","0","0">>,
          <<"0","4","0","1","0">>, <<"0","3","0","1","0">>, <<"0","3","0","8","0">>,
          <<"0","9","9","9","9">>, <<"0","2","0","2">>,
          <<" ","0","3","0","1","0","0","7"," ">>}

\* the sheet for the ratios: the accounts calcola_kpi reads
ContiKPI == {<<"0","1","0","1","0">>, <<"0","1","0","4","0">>, <<"0","1","0","6","0">>,
             <<"0","2","0","1","0">>, <<"0","2","2","0","0">>,
             <<"0","4","0","1","0">>, <<"0","3","0","1","0">>, <<"0","3","0","8","0">>}

ImportiKPI == {Q(-1), Q(2), Q(3)}

Riga(conto, importo) ==
  [conto |-> conto, importo |-> importo, sezbil |-> SezioneDelConto(conto)]

Righe == {Riga(x[1], x[2]) : x \in Conti \X Importi}

RigheSP == {Riga(x[1], x[2]) : x \in ContiSP \X Importi}

RigheKPI == {Riga(x[1], x[2]) : x \in ContiKPI \X ImportiKPI}

\* the income-statement accounts in the order of the chart, each with the
\* amount of its raw group in the worked example of the cascade
PianoCE == << <<"0","3","0","1","0">>, <<"0","3","0","2","0">>, <<"0","3","0","3","0">>,
              <<"0","3","0","6","0">>, <<"0","3","0","7","0">>, <<"0","3","0","7","5">>,
              <<"0","3","0","8","0">>, <<"0","4","0","1","0">>, <<"0","4","0","2","0">>,
              <<"0","4","0","8","0">> >>

EsempioCE == <<400, 50, 150, 100, 60, 10, 20, 1000, 5, 80>>

Posizione(conto) == CHOOSE i \in 1..Len(PianoCE) : PianoCE[i] = conto

RigheCE == {Riga(PianoCE[x[1]], Q(x[2] * EsempioCE[x[1]])) :
              x \in (1..Len(PianoCE)) \X {-1, 1}}

\* the sheet for the closure check: one account of each section, with
\* totals that differ by 0.005, by 0.01 and by 2
ContiQuad == {<<"0","1","0","1","0">>, <<"0","2","0","1","0">>,
              <<"0","4","0","1","0">>, <<"0","3","0","1","0">>}

ImportiQuad == {Q(10000), <<2000001, 200>>, <<1000001, 100>>, Q(9998)}

RigheQuad == {Riga(x[1], x[2]) : x \in ContiQuad \X ImportiQuad}

\* the files of the uploader: at most MaxFile in one run, under three names,
\* each holding one of four sheets
MaxFile == 2

Nomi == {"a.xlsx", "b.xlsx", "c.xlsx"}

Fogli ==
  { <<>>,
    << Riga(<<"0","1","0","1","0">>, Q(2)) >>,
    << Riga(<<"0","1","0","1","0">>, Q(2)), Riga(<<"0","2","0","1","0">>, Q(2)) >>,
    << Riga(<<"0","4","0","1","0">>, Q(3)), Riga(<<"0","3","0","1","0">>, Q(-1)),
       Riga(<<"0","2","0","3","0">>, Q(2)) >> }

File == [name : Nomi, foglio : Fogli]

Caricati == UNION {[1..n -> File] : n \in 0..MaxFile}

---------------------------------------------------------------------------
(* State machine: the rows of the sheet are read into df, then main runs    *)
(* the four functions on it and stores their results                        *)

Nessuno == EmptyMap

Init ==
  /\ df = <<>>
  /\ perc = PercDefault
  /\ pc = "carica"
  /\ quadratura = Nessuno
  /\ sp = Nessuno
  /\ totali = Nessuno
  /\ ce = Nessuno
  /\ kpi = Nessuno
  /\ semafori = Nessuno
  /\ errore = FALSE
  /\ esito = "nessuno"
  /\ session_state = [dataframes |-> Nessuno, quadrature |-> Nessuno, sp |-> Nessuno,
                      ce |-> Nessuno, kpi |-> Nessuno]

\* load_excel: one more row of the sheet in df
CaricaRiga(riga) ==
  /\ pc = "carica"
  /\ Len(df) < MaxRighe
  /\ df' = Append(df, riga)
  /\ UNCHANGED <<perc, pc, quadratura, sp, totali, ce, kpi, semafori, errore, esito,
               session_state>>

\* main, for one file: the four functions in turn, df untouched
Analizza(p) ==
  /\ pc = "carica"
  /\ \E q \in {verifica_quadratura(df)}, s \in {riclassifica_sp(df, p)},
        c \in {riclassifica_ce(df)} :
       \E k \in {calcola_kpi(s[2], s[1], c, q)} :
         /\ quadratura' = q
         /\ sp' = s[1]
         /\ totali' = s[2]
         /\ ce' = c
         /\ kpi' = k.kpi
         /\ semafori' = k.semafori
         /\ errore' = k.errore
  /\ perc' = p
  /\ pc' = "fatto"
  /\ UNCHANGED <<df, esito, session_state>>

\* load_excel on a sheet that lists each account once, in account order
CaricaConto(riga) ==
  /\ pc = "carica"
  /\ IF df = <<>> THEN TRUE
     ELSE Posizione(df[Len(df)].conto) < Posizione(riga.conto)
  /\ df' = Append(df, riga)
  /\ UNCHANGED <<perc, pc, quadratura, sp, totali, ce, kpi, semafori, errore, esito,
               session_state>>

\* main on any sheet of at most MaxRighe rows
Next ==
  \/ \E riga \in Righe : CaricaRiga(riga)
  \/ Analizza(PercDefault)

Spec == Init /\ [][Next]_vars

\* riclassifica_sp with any perc_breve_banche, on balance-sheet accounts
NextSP ==
  \/ \E riga \in RigheSP : CaricaRiga(riga)
  \/ \E p \in Percentuali : Analizza(p)

SpecSP == Init /\ [][NextSP]_vars

\* main on the accounts the ratios read
NextKPI ==
  \/ \E riga \in RigheKPI : CaricaRiga(riga)
  \/ Analizza(PercDefault)

SpecKPI == Init /\ [][NextKPI]_vars

\* main on a sheet of income-statement accounts
NextCE ==
  \/ \E riga \in RigheCE : CaricaConto(riga)
  \/ Analizza(PercDefault)

SpecCE == Init /\ [][NextCE]_vars

\* the tolerance of the closure page
Tolleranza == <<1, 100>>

Bilanciato_mut(diff_sp) == RLe(RAbs(diff_sp), Tolleranza)

\* main, page QUADRATURA: abs(diff_sp) < 0.01
Bilanciato(diff_sp) == RLt(RAbs(diff_sp), Tolleranza)

\* main, page QUADRATURA, for the file analysed: st.success or st.error on
\* the difference stored by verifica_quadratura
PaginaQuadratura ==
  /\ pc = "fatto"
  /\ esito' = IF Bilanciato(quadratura["Differenza SP"]) THEN "success" ELSE "error"
  /\ UNCHANGED <<df, perc, pc, quadratura, sp, totali, ce, kpi, semafori, errore,
               session_state>>

\* main and its closure page on a sheet of one account per section
NextQuad ==
  \/ \E riga \in RigheQuad : CaricaRiga(riga)
  \/ Analizza(PercDefault)
  \/ PaginaQuadratura

SpecQuad == Init /\ [][NextQuad]_vars

---------------------------------------------------------------------------
(* What the properties below are stated with *)

AC == "Attivo Circolante"
AI == "Attivo Immobilizzato"
PC == "Passivo Corrente"
PCons == "Passivo Consolidato"
PN == "Patrimonio Netto"

K01070 == <<"0","1","0","7","0">>
K02020 == <<"0","2","0","2","0">>
K02030 == <<"0","2","0","3","0">>
K02040 == <<"0","2","0","4","0">>
K02110 == <<"0","2","1","1","0">>

RECURSIVE Somma(_)
Somma(s) == IF s = <<>> THEN Q0 ELSE RAdd(Head(s), Somma(Tail(s)))

\* d without its i-th row
Togli(d, i) == SubSeq(d, 1, i - 1) \o SubSeq(d, i + 1, Len(d))

\* the rows i and j of d change places
Scambia(d, i, j) == [d EXCEPT ![i] = d[j], ![j] = d[i]]

\* the rows of d whose prefix is not in K
SenzaPrefissi(d, K) == SelectSeq(d, LAMBDA r : get_prefisso(r.conto) \notin K)

\* the sum of the amounts of the rows of d whose prefix is in K
SommaPrefissi(d, K) ==
  Somma([i \in 1..Len(d) |-> IF get_prefisso(d[i].conto) \in K THEN d[i].importo ELSE Q0])

\* the raw income-statement group voce of d: revenue rows add, the others subtract
Gruppo(d, voce) ==
  Somma([i \in 1..Len(d) |->
           IF get_prefisso(d[i].conto) \in DOMAIN CE_MAP /\ CE_MAP[get_prefisso(d[i].conto)] = voce
           THEN IF d[i].sezbil = "R" THEN d[i].importo ELSE RSub(Q0, d[i].importo)
           ELSE Q0])

\* the prefix of an account code: the first five characters of the code
\* without the blanks around it, or all of it if it is shorter
PrefissoDelConto(conto) ==
  LET pieni == {i \in 1..Len(conto) : conto[i] # " "}
      primo == CHOOSE i \in pieni : \A j \in pieni : i <= j
      ultimo == CHOOSE i \in pieni : \A j \in pieni : j <= i
  IN  IF pieni = {} THEN <<>>
      ELSE SubSeq(conto, primo, IF ultimo - primo < 5 THEN ultimo ELSE primo + 4)

\* the section total of verifica_quadratura a row of section sezione is counted in
TotaleDi(sezione) ==
  CASE sezione = "A" -> "Totale Attivo (A)"
    [] sezione = "P" -> "Totale Passivo (P)"
    [] sezione = "R" -> "Totale Ricavi (R)"
    [] sezione = "C" -> "Totale Costi (C)"

\* the raw groups of the worked example of the cascade
GruppiEsempio ==
  /\ Gruppo(df, "Ricavi") = Q(1000)
  /\ Gruppo(df, "Rimanenze iniziali") = Q(50)
  /\ Gruppo(df, "Rimanenze finali") = Q(80)
  /\ Gruppo(df, "Acquisti") = Q(400)
  /\ Gruppo(df, "Costo personale diretto") = Q(100)
  /\ Gruppo(df, "Costi commerciali/amm/ge") = Q(150)
  /\ Gruppo(df, "Ammortamenti") = Q(60)
  /\ Gruppo(df, "Accantonamenti") = Q(10)
  /\ Gruppo(df, "Oneri finanziari") = Q(20)
  /\ Gruppo(df, "Proventi finanziari") = Q(5)

\* the bank-debt prefixes
Banche == {K02030, K02040}

\* no row triggers a special case of riclassifica_sp
NessunCasoSpeciale ==
  \A i \in 1..Len(df) :
    LET pref == get_prefisso(df[i].conto)
    IN  /\ ~(pref = K02020 /\ RLt(df[i].importo, Q0))
        /\ pref \notin {K02110, K02030, K02040}

\* the results stored are those of df with any two neighbouring rows
\* exchanged; every sequence of rows is loaded, so that the results of all
\* the orders of the same rows are equal
StessoRisultato ==
  pc = "fatto" =>
    \A i \in 1..(Len(df) - 1) :
      /\ riclassifica_sp(Scambia(df, i, i + 1), perc) = <<sp, totali>>
      /\ riclassifica_ce(Scambia(df, i, i + 1)) = ce

---------------------------------------------------------------------------
\* C1: every record whose prefix SP_MAP maps to Passivo Corrente / Debiti
\* tributari (02020, 02080) and whose amount A is negative adds nothing to
\* any Passivo Corrente sub-category and adds exactly |A| to Attivo
\* Circolante / Crediti tributari.
C1_TaxCreditRedirection ==
  pc = "fatto" =>
    \A i \in 1..Len(df) :
      LET pref == get_prefisso(df[i].conto)
          senza == riclassifica_sp(Togli(df, i), perc)[1]
      IN  ( /\ pref \in DOMAIN SP_MAP
            /\ SP_MAP[pref] = <<PC, "Debiti tributari">>
            /\ RLt(df[i].importo, Q0) )
          => /\ sp[PC] = senza[PC]
             /\ Get(sp[AC], "Crediti tributari")
                  = RAdd(Get(senza[AC], "Crediti tributari"), RAbs(df[i].importo))

\* what riclassifica_sp does: the redirection, for the records of prefix 02020 alone
Solo02020 ==
  pc = "fatto" =>
    \A i \in 1..Len(df) :
      LET senza == riclassifica_sp(Togli(df, i), perc)[1]
      IN  (get_prefisso(df[i].conto) = K02020 /\ RLt(df[i].importo, Q0))
          => /\ sp[PC] = senza[PC]
             /\ Get(sp[AC], "Crediti tributari")
                  = RAdd(Get(senza[AC], "Crediti tributari"), RAbs(df[i].importo))

---------------------------------------------------------------------------
\* C2: Copertura oneri finanziari equals EBITDA divided by the absolute
\* value of the Oneri finanziari group whenever that group is nonzero, and
\* is +infinity only when that group is zero.
C2_CoperturaOneri ==
  pc = "fatto" =>
    LET oneri == Gruppo(df, "Oneri finanziari")
    IN  /\ oneri # Q0 => kpi["Copertura oneri finanziari"] = Div(ce["EBITDA"], RAbs(oneri))
        /\ kpi["Copertura oneri finanziari"] = Inf => oneri = Q0

---------------------------------------------------------------------------
\* C3: the derived items of riclassifica_ce follow the cascade over the raw
\* groups (a missing group counts as 0): Variazione rimanenze = Rimanenze
\* finali - Rimanenze iniziali; Valore della produzione = Ricavi +
\* Variazione rimanenze; Costo del venduto = Acquisti + Costo personale
\* diretto; Margine industriale = Valore della produzione - Costo del
\* venduto; EBITDA = Margine industriale - Costi commerciali/amm/ge; EBIT =
\* EBITDA - Ammortamenti - Accantonamenti; Saldo gestione finanziaria =
\* Proventi finanziari - Oneri finanziari; Risultato ante imposte = EBIT +
\* Saldo gestione finanziaria; and the groups 1000/50/80/400/100/150/60/10/
\* 20/5 give 30, 1030, 500, 530, 380, 310, -15, 295.
C3_Cascata ==
  pc = "fatto" =>
    /\ ce["Ricavi"] = Gruppo(df, "Ricavi")
    /\ ce["Acquisti"] = Gruppo(df, "Acquisti")
    /\ ce["Costo personale diretto"] = Gruppo(df, "Costo personale diretto")
    /\ ce["Costi commerciali/amm/ge"] = Gruppo(df, "Costi commerciali/amm/ge")
    /\ ce["Ammortamenti"] = Gruppo(df, "Ammortamenti")
    /\ ce["Accantonamenti"] = Gruppo(df, "Accantonamenti")
    /\ ce["Variazione rimanenze"]
         = RSub(Gruppo(df, "Rimanenze finali"), Gruppo(df, "Rimanenze iniziali"))
    /\ ce["Valore della produzione"] = RAdd(ce["Ricavi"], ce["Variazione rimanenze"])
    /\ ce["Costo del venduto"] = RAdd(ce["Acquisti"], ce["Costo personale diretto"])
    /\ ce["Margine industriale"]
         = RSub(ce["Valore della produzione"], ce["Costo del venduto"])
    /\ ce["EBITDA"] = RSub(ce["Margine industriale"], ce["Costi commerciali/amm/ge"])
    /\ ce["EBIT"] = RSub(RSub(ce["EBITDA"], ce["Ammortamenti"]), ce["Accantonamenti"])
    /\ ce["Saldo gestione finanziaria"]
         = RSub(Gruppo(df, "Proventi finanziari"), Gruppo(df, "Oneri finanziari"))
    /\ ce["Risultato ante imposte"] = RAdd(ce["EBIT"], ce["Saldo gestione finanziaria"])
    /\ GruppiEsempio =>
         /\ ce["Variazione rimanenze"] = Q(30)
         /\ ce["Valore della produzione"] = Q(1030)
         /\ ce["Costo del venduto"] = Q(500)
         /\ ce["Margine industriale"] = Q(530)
         /\ ce["EBITDA"] = Q(380)
         /\ ce["EBIT"] = Q(310)
         /\ ce["Saldo gestione finanziaria"] = Q(-15)
         /\ ce["Risultato ante imposte"] = Q(295)

\* the worked example has been run
C3_Witness ==
  /\ pc = "fatto"
  /\ Len(df) = 10
  /\ GruppiEsempio
  /\ ce["EBIT"] = Q(310)
  /\ ce["Risultato ante imposte"] = Q(295)

---------------------------------------------------------------------------
\* C4: calcola_kpi never fails, and whenever the denominator of a ratio is
\* 0 it returns the fixed sentinel: +infinity for Current ratio, Quick
\* ratio, Leverage and Copertura oneri finanziari; 0 for Giorni credito,
\* ROE, ROI, ROS and Rotazione magazzino.
C4_Sentinelle ==
  pc = "fatto" =>
    /\ ~errore
    /\ \A k \in Kpi : kpi[k] # ZeroDivisionError
    /\ totali[PC] = Q0 => kpi["Current ratio"] = Inf /\ kpi["Quick ratio"] = Inf
    /\ totali[PN] = Q0 => kpi["Leverage"] = Inf /\ kpi["ROE"] = Q0
    /\ Gruppo(df, "Oneri finanziari") = Q0 => kpi["Copertura oneri finanziari"] = Inf
    /\ ce["Ricavi"] = Q0 => kpi["Giorni credito"] = Q0 /\ kpi["ROS"] = Q0
    /\ RAdd(totali[AI], totali[AC]) = Q0 => kpi["ROI"] = Q0
    /\ Get(sp[AC], "Rimanenze") = Q0 => kpi["Rotazione magazzino"] = Q0

\* receivables with neither current liabilities nor revenues, beside equity
C4_Witness ==
  /\ pc = "fatto"
  /\ totali[PC] = Q0 /\ totali[AC] # Q0 /\ kpi["Current ratio"] = Inf
  /\ ce["Ricavi"] = Q0 /\ Get(sp[AC], "Crediti vs clienti") # Q0 /\ kpi["Giorni credito"] = Q0
  /\ totali[PN] # Q0 /\ kpi["Leverage"] = Q0

---------------------------------------------------------------------------
\* C5: with V the sum of the 01070 amounts and D the sum of the 02110
\* amounts, Immobilizzazioni materiali is exactly V - D when a 01070 record
\* exists; when none exists the sub-category is not created and D is
\* subtracted from nothing; in both cases the 02110 amounts are added to no
\* sub-category (no F.do ammortamento bucket appears).
C5_Ammortamento ==
  pc = "fatto" =>
    LET V == SommaPrefissi(df, {K01070})
        D == SommaPrefissi(df, {K02110})
        esiste == \E i \in 1..Len(df) : get_prefisso(df[i].conto) = K01070
        senza == riclassifica_sp(SenzaPrefissi(df, {K02110}), perc)[1]
    IN  /\ esiste => /\ "Immobilizzazioni materiali" \in DOMAIN sp[AI]
                     /\ sp[AI]["Immobilizzazioni materiali"] = RSub(V, D)
                     /\ sp = [senza EXCEPT ![AI]["Immobilizzazioni materiali"] = RSub(@, D)]
        /\ ~esiste => /\ "Immobilizzazioni materiali" \notin DOMAIN sp[AI]
                      /\ sp = senza
        /\ \A m \in DOMAIN sp : "F.do ammortamento" \notin DOMAIN sp[m]

\* two tangible-asset rows and a depreciation fund
C5_Witness ==
  /\ pc = "fatto"
  /\ Len(df) = 3
  /\ get_prefisso(df[1].conto) = K01070
  /\ get_prefisso(df[2].conto) = K02110
  /\ get_prefisso(df[3].conto) = K01070
  /\ df[1].importo = Q(2) /\ df[2].importo = Q(-1) /\ df[3].importo = Q(2)
  /\ sp[AI]["Immobilizzazioni materiali"] = Q(5)

---------------------------------------------------------------------------
\* C6: every record of prefix 02030 or 02040 adds amount * r to Passivo
\* Corrente / Debiti vs banche and the amount less that short portion to
\* Passivo Consolidato / Debiti vs banche ML, for every ratio r; the two
\* portions sum to the amount; over the record set the two sub-categories
\* together equal the sum of the bank-debt amounts; bank-debt records touch
\* no other bucket.
C6_QuoteBanche ==
  pc = "fatto" =>
    LET B == SommaPrefissi(df, Banche)
        senzaTutti == riclassifica_sp(SenzaPrefissi(df, Banche), perc)[1]
    IN  /\ \A i \in 1..Len(df) :
             get_prefisso(df[i].conto) \in Banche =>
               LET senza == riclassifica_sp(Togli(df, i), perc)[1]
                   breve == RSub(sp[PC]["Debiti vs banche"], Get(senza[PC], "Debiti vs banche"))
                   ml == RSub(sp[PCons]["Debiti vs banche ML"],
                              Get(senza[PCons], "Debiti vs banche ML"))
               IN  /\ breve = RMul(df[i].importo, perc)
                   /\ ml = RSub(df[i].importo, breve)
                   /\ RAdd(breve, ml) = df[i].importo
        /\ RAdd(Get(sp[PC], "Debiti vs banche"), Get(sp[PCons], "Debiti vs banche ML")) = B
        /\ \A m \in DOMAIN sp :
             \A sotto \in DOMAIN sp[m] \ {"Debiti vs banche", "Debiti vs banche ML"} :
               sotto \in DOMAIN senzaTutti[m] /\ sp[m][sotto] = senzaTutti[m][sotto]
        /\ \A m \in DOMAIN sp : DOMAIN senzaTutti[m] \subseteq DOMAIN sp[m]

\* a third of two bank debts is short-term, beside a supplier debt
C6_Witness ==
  /\ pc = "fatto"
  /\ perc = <<1, 3>>
  /\ \E i, j \in 1..Len(df) :
       get_prefisso(df[i].conto) = K02030 /\ get_prefisso(df[j].conto) = K02040
  /\ "Debiti vs fornitori" \in DOMAIN sp[PC]
  /\ sp[PC]["Debiti vs banche"] = <<1, 3>>
  /\ sp[PCons]["Debiti vs banche ML"] = <<2, 3>>

---------------------------------------------------------------------------
\* C7: for a record set that triggers no special case (no 02020 record with
\* a negative amount, no 02110 record, no 02030/02040 record), the total of
\* every macro-category is the sum of its sub-category amounts and equals
\* the sum of the raw amounts of the records SP_MAP maps to it.
C7_Conservazione ==
  (pc = "fatto" /\ NessunCasoSpeciale) =>
    \A m \in Macro :
      /\ totali[m] = SumValues(sp[m])
      /\ totali[m] = Somma([i \in 1..Len(df) |->
                              LET pref == get_prefisso(df[i].conto)
                              IN  IF pref \in DOMAIN SP_MAP /\ SP_MAP[pref][1] = m
                                  THEN df[i].importo ELSE Q0])

\* three plain rows, two of them in the same sub-category
C7_Witness ==
  /\ pc = "fatto"
  /\ NessunCasoSpeciale
  /\ Len(df) = 3
  /\ DOMAIN sp[PC] = {"Debiti tributari", "Debiti vs fornitori"}
  /\ sp[PC]["Debiti tributari"] = Q(1)
  /\ totali[PC] = Q(3)

---------------------------------------------------------------------------
\* C8: every ratio gets exactly one of three indicators from its threshold
\* pair: for Giorni credito and Leverage, green iff value <= green
\* threshold, yellow iff green threshold < value <= yellow threshold, red
\* otherwise; for the other seven, green iff value >= green threshold,
\* yellow iff yellow threshold <= value < green threshold, red otherwise;
\* a value on a threshold gets the more favourable indicator, and the
\* +infinity sentinels follow the same comparisons.
C8_Semafori ==
  pc = "fatto" =>
    \A k \in Kpi :
      LET v == kpi[k]
          verde == soglie[k][1]
          gialla == soglie[k][2]
      IN  /\ semafori[k] \in {"verde", "giallo", "rosso"}
          /\ IF k \in {"Giorni credito", "Leverage"}
             THEN /\ semafori[k] = "verde" <=> RLe(v, verde)
                  /\ semafori[k] = "giallo" <=> (RLt(verde, v) /\ RLe(v, gialla))
                  /\ semafori[k] = "rosso" <=> RLt(gialla, v)
             ELSE /\ semafori[k] = "verde" <=> RLe(verde, v)
                  /\ semafori[k] = "giallo" <=> (RLe(gialla, v) /\ RLt(v, verde))
                  /\ semafori[k] = "rosso" <=> RLt(v, gialla)

\* a current ratio on its yellow threshold, a quick ratio above its green one,
\* and a leverage of +infinity
C8_Witness ==
  /\ pc = "fatto"
  /\ kpi["Current ratio"] = <<3, 2>> /\ semafori["Current ratio"] = "giallo"
  /\ kpi["Quick ratio"] = <<3, 2>> /\ semafori["Quick ratio"] = "verde"
  /\ kpi["Leverage"] = Inf /\ semafori["Leverage"] = "rosso"
  /\ kpi["Copertura oneri finanziari"] = Inf
  /\ semafori["Copertura oneri finanziari"] = "verde"

---------------------------------------------------------------------------
\* C9: a record whose 5-character prefix (the first 5 characters of the
\* stripped account code, or the whole code if shorter; exact match only)
\* is absent from SP_MAP leaves every sub-category and total of
\* riclassifica_sp unchanged; one whose prefix is absent from CE_MAP leaves
\* every raw group and every item of riclassifica_ce unchanged except
\* Utile netto (da quadratura); the record is still added to its section
\* total in verifica_quadratura, which reads only section and amount.
C9_NonClassificato ==
  pc = "fatto" =>
    \A i \in 1..Len(df) :
      LET pref == PrefissoDelConto(df[i].conto)
          senza == Togli(df, i)
          t == TotaleDi(df[i].sezbil)
          utile == "Utile netto (da quadratura)"
      IN  /\ pref \notin DOMAIN SP_MAP => riclassifica_sp(senza, perc) = <<sp, totali>>
          /\ pref \notin DOMAIN CE_MAP =>
               /\ CeLoop(senza) = CeLoop(df)
               /\ [riclassifica_ce(senza) EXCEPT ![utile] = ce[utile]] = ce
          /\ \A q \in {verifica_quadratura(senza)} :
               /\ quadratura[t] = RAdd(q[t], df[i].importo)
               /\ \A u \in {TotaleDi(x) : x \in {"A", "P", "R", "C"}} \ {t} :
                    quadratura[u] = q[u]

\* a supplier debt beside a code of four characters and a prefix in no table
C9_Witness ==
  /\ pc = "fatto"
  /\ Len(df) = 3
  /\ df[1] = Riga(<<"0","2","0","1","0">>, Q(2))
  /\ df[2] = Riga(<<"0","2","0","2">>, Q(2))
  /\ df[3] = Riga(<<"0","9","9","9","9">>, Q(2))
  /\ sp[PC] = ("Debiti vs fornitori" :> Q(2))
  /\ totali[PC] = Q(2)
  /\ quadratura["Totale Passivo (P)"] = Q(4)
  /\ ce["Risultato ante imposte"] = Q0
  /\ ce["Utile netto (da quadratura)"] = Q(-2)

---------------------------------------------------------------------------
\* C10: two record sequences holding the same records in any order, with
\* the same ratio, give the same sub-category amounts and totals in
\* riclassifica_sp and the same items in riclassifica_ce, in exact
\* arithmetic; neither function modifies its input records.
C10_Ordine == [](StessoRisultato) /\ [][pc' = "fatto" => df' = df]_vars

\* three different rows, two of them purchases, one a bank debt
C10_Witness ==
  /\ pc = "fatto"
  /\ Len(df) = 3
  /\ df[1] = Riga(<<"0","3","0","1","0">>, Q(-1))
  /\ df[2] = Riga(<<"0","2","0","3","0">>, Q(2))
  /\ df[3] = Riga(<<" ","0","3","0","1","0","0","7"," ">>, Q(2))
  /\ sp[PC]["Debiti vs banche"] = <<1, 5>>
  /\ ce["Acquisti"] = Q(-1)

\* the data frame of a name already analysed is replaced by the new upload,
\* its results are not
AnalizzaFile_mut(ss, file) ==
  IF file.name \in DOMAIN ss.dataframes
  THEN [ss EXCEPT !.dataframes[file.name] = file.foglio]
  ELSE LET d == file.foglio
           q == verifica_quadratura(d)
           s == riclassifica_sp(d, PercDefault)
           c == riclassifica_ce(d)
           k == calcola_kpi(s[2], s[1], c, q)
       IN  [dataframes |-> ss.dataframes @@ (file.name :> d),
            quadrature |-> ss.quadrature @@ (file.name :> q),
            sp |-> ss.sp @@ (file.name :> s),
            ce |-> ss.ce @@ (file.name :> c),
            kpi |-> ss.kpi @@ (file.name :> <<k.kpi, k.semafori>>)]

\* main, the body of the loop over the uploaded files: a file whose name
\* is not yet in dataframes is loaded and analysed, and each result is
\* stored under its name; an exception of calcola_kpi leaves the run there
AnalizzaFile(ss, file) ==
  IF file.name \in DOMAIN ss.dataframes THEN ss
  ELSE LET d == file.foglio
           q == verifica_quadratura(d)
           s == riclassifica_sp(d, PercDefault)
           c == riclassifica_ce(d)
           k == calcola_kpi(s[2], s[1], c, q)
           s1 == [dataframes |-> ss.dataframes @@ (file.name :> d),
                  quadrature |-> ss.quadrature @@ (file.name :> q),
                  sp |-> ss.sp @@ (file.name :> s),
                  ce |-> ss.ce @@ (file.name :> c),
                  kpi |-> ss.kpi]
       IN  IF k.errore THEN s1
           ELSE [s1 EXCEPT !.kpi = ss.kpi @@ (file.name :> <<k.kpi, k.semafori>>)]

\* main, the loop over the uploaded files
RECURSIVE AnalizzaFiles(_, _)
AnalizzaFiles(ss, files) ==
  IF files = <<>> THEN ss
  ELSE LET s1 == AnalizzaFile(ss, Head(files))
       IN  IF DOMAIN s1.kpi # DOMAIN s1.dataframes THEN s1
           ELSE AnalizzaFiles(s1, Tail(files))

\* one run of main with the files of the uploader
Rerun(uploaded_files) ==
  /\ session_state' = AnalizzaFiles(session_state, uploaded_files)
  /\ UNCHANGED <<df, perc, pc, quadratura, sp, totali, ce, kpi, semafori, errore, esito>>

\* main, page REPORT: a name picked in dataframes indexes sp, ce, kpi and
\* quadrature
PaginaReport(nome_file) ==
  /\ nome_file \in DOMAIN session_state.dataframes
  /\ esito' = IF /\ nome_file \in DOMAIN session_state.sp
                 /\ nome_file \in DOMAIN session_state.ce
                 /\ nome_file \in DOMAIN session_state.kpi
                 /\ nome_file \in DOMAIN session_state.quadrature
              THEN "report" ELSE "KeyError"
  /\ UNCHANGED <<df, perc, pc, quadratura, sp, totali, ce, kpi, semafori, errore,
                 session_state>>

\* the runs of main in one session
NextSessione ==
  \/ \E uploaded_files \in Caricati : Rerun(uploaded_files)
  \/ \E nome_file \in Nomi : PaginaReport(nome_file)

SpecSessione == Init /\ [][NextSessione]_vars

---------------------------------------------------------------------------
\* the total of the amounts of the rows of df in section sezione
SommaSezione(sezione) ==
  Somma([i \in 1..Len(df) |-> IF df[i].sezbil = sezione THEN df[i].importo ELSE Q0])

\* C11: verifica_quadratura reports Differenza SP = Asset total - Liability
\* total and Utile/Perdita = Revenue total - Cost total; a dataset is
\* reported as balanced exactly when |Asset total - Liability total| < 0.01
\* (10000.00 against 10000.005 is balanced, 10000 against 9998 is not); an
\* unbalanced dataset is only reported, and the balance sheet, the income
\* statement and the ratios are computed all the same.
C11_Quadratura ==
  pc = "fatto" =>
    LET A == SommaSezione("A")
        P == SommaSezione("P")
        diff == RSub(A, P)
    IN  /\ quadratura["Differenza SP"] = diff
        /\ quadratura["Utile/Perdita"] = RSub(SommaSezione("R"), SommaSezione("C"))
        /\ esito # "nessuno" =>
              /\ esito = "success" <=> RLt(RAbs(diff), <<1, 100>>)
              /\ esito = "error" <=> ~RLt(RAbs(diff), <<1, 100>>)
              /\ (A = Q(10000) /\ P = <<2000001, 200>>) => esito = "success"
              /\ (A = Q(10000) /\ P = Q(9998)) => esito = "error"
        /\ ~RLt(RAbs(diff), <<1, 100>>) =>
              /\ ~errore
              /\ DOMAIN sp = Macro /\ DOMAIN totali = Macro
              /\ <<sp, totali>> = riclassifica_sp(df, perc)
              /\ ce = riclassifica_ce(df)
              /\ DOMAIN kpi = Kpi /\ DOMAIN semafori = Kpi

\* assets of 10000 against liabilities of 9998, with a revenue: reported
\* unbalanced, and the ratios are there
C11_Witness ==
  /\ pc = "fatto"
  /\ Len(df) = 3
  /\ quadratura["Totale Attivo (A)"] = Q(10000)
  /\ quadratura["Totale Passivo (P)"] = Q(9998)
  /\ quadratura["Differenza SP"] = Q(2)
  /\ quadratura["Utile/Perdita"] = Q(10000)
  /\ esito = "error"
  /\ DOMAIN kpi = Kpi

\* assets of 10000.00 against liabilities of 10000.005: reported balanced
C11_WitnessBilanciato ==
  /\ pc = "fatto"
  /\ quadratura["Totale Attivo (A)"] = Q(10000)
  /\ quadratura["Totale Passivo (P)"] = <<2000001, 200>>
  /\ esito = "success"

---------------------------------------------------------------------------
\* the labels of CE_MAP that are revenues
VociRicavo == {"Ricavi", "Rimanenze finali", "Proventi finanziari"}

\* every revenue and cost row is classified, revenue labels are on revenue
\* rows and the other labels on cost rows, and no balance-sheet row has a
\* prefix of CE_MAP
TuttoClassificatoCE ==
  \A i \in 1..Len(df) :
    LET pref == get_prefisso(df[i].conto)
    IN  /\ df[i].sezbil \in {"R", "C"} => pref \in DOMAIN CE_MAP
        /\ pref \in DOMAIN CE_MAP =>
             /\ df[i].sezbil \in {"R", "C"}
             /\ df[i].sezbil = "R" <=> CE_MAP[pref] \in VociRicavo

\* C12: when every revenue and cost record has a prefix in CE_MAP, revenue
\* labels (Ricavi, Rimanenze finali, Proventi finanziari) occur only on
\* revenue records, all other labels only on cost records, and no asset or
\* liability record has a CE_MAP prefix, riclassifica_ce returns Risultato
\* ante imposte equal to Utile netto (da quadratura).
C12_RisultatoUgualeUtile ==
  (pc = "fatto" /\ TuttoClassificatoCE) =>
    ce["Risultato ante imposte"] = ce["Utile netto (da quadratura)"]

\* what riclassifica_ce returns on such a record set: the cost rows, entered
\* in their groups with the sign reversed and subtracted by the cascade, are
\* added to the revenues
SommaNonSottrae ==
  (pc = "fatto" /\ TuttoClassificatoCE) =>
    /\ ce["Risultato ante imposte"] = RAdd(SommaSezione("R"), SommaSezione("C"))
    /\ ce["Utile netto (da quadratura)"] = RSub(SommaSezione("R"), SommaSezione("C"))

---------------------------------------------------------------------------
\* every row has a prefix of SP_MAP, the 01 prefixes are in section A and
\* the 02 prefixes in section P
TuttoClassificatoSP ==
  \A i \in 1..Len(df) :
    LET pref == get_prefisso(df[i].conto)
    IN  /\ pref \in DOMAIN SP_MAP
        /\ pref[2] = "1" => df[i].sezbil = "A"
        /\ pref[2] = "2" => df[i].sezbil = "P"

\* the closure difference of the reclassified balance sheet
DifferenzaRiclassificata ==
  RSub(RAdd(totali[AI], totali[AC]),
       RAdd(RAdd(totali[PC], totali[PCons]), totali[PN]))

\* C13: when every record has a prefix in SP_MAP, every 01 record is an
\* asset and every 02 record a liability, the reclassified balance sheet
\* keeps the closure difference: (Attivo Immobilizzato + Attivo Circolante)
\* - (Passivo Corrente + Passivo Consolidato + Patrimonio Netto) from
\* riclassifica_sp equals Differenza SP from verifica_quadratura, for every
\* short-term bank ratio and with the tax-credit, depreciation and bank-debt
\* special cases.
C13_DifferenzaConservata ==
  (pc = "fatto" /\ TuttoClassificatoSP) =>
    DifferenzaRiclassificata = quadratura["Differenza SP"]

\* C13, amended: under the same conditions the reclassified difference
\* equals Differenza SP when the record set holds a 01070 record, and
\* Differenza SP plus the sum of the 02110 amounts when it holds none (the
\* depreciation fund of a sheet without tangible assets is in no total).
C13_DifferenzaSenzaFondo ==
  (pc = "fatto" /\ TuttoClassificatoSP) =>
    DifferenzaRiclassificata =
      IF \E i \in 1..Len(df) : get_prefisso(df[i].conto) = K01070
      THEN quadratura["Differenza SP"]
      ELSE RAdd(quadratura["Differenza SP"], SommaPrefissi(df, {K02110}))

\* a depreciation fund without tangible assets, a tax debt of negative
\* amount and a bank debt split in three
C13_Witness ==
  /\ pc = "fatto"
  /\ TuttoClassificatoSP
  /\ perc = <<1, 3>>
  /\ Len(df) = 3
  /\ get_prefisso(df[1].conto) = K02110 /\ df[1].importo = Q(2)
  /\ get_prefisso(df[2].conto) = K02020 /\ df[2].importo = Q(-1)
  /\ get_prefisso(df[3].conto) = K02030 /\ df[3].importo = Q(2)
  /\ quadratura["Differenza SP"] = Q(-3)
  /\ DifferenzaRiclassificata = Q(-1)

\* tangible assets net of their fund: the difference is kept
C13_WitnessNetto ==
  /\ pc = "fatto"
  /\ TuttoClassificatoSP
  /\ \E i, j \in 1..Len(df) :
       get_prefisso(df[i].conto) = K01070 /\ get_prefisso(df[j].conto) = K02110
  /\ quadratura["Differenza SP"] = Q(3)
  /\ DifferenzaRiclassificata = Q(3)

---------------------------------------------------------------------------
\* C14: after any sequence of runs of main with any sets of uploaded files,
\* the session maps dataframes, quadrature, sp, ce and kpi have the same
\* file names as keys, and under every key the stored quadrature, balance
\* sheet, income statement and ratios are the ones computed from the record
\* set stored under that key in dataframes, so that a page that picks a
\* name in one map and indexes another never misses an entry.
C14_Sessione ==
  /\ DOMAIN session_state.quadrature = DOMAIN session_state.dataframes
  /\ DOMAIN session_state.sp = DOMAIN session_state.dataframes
  /\ DOMAIN session_state.ce = DOMAIN session_state.dataframes
  /\ DOMAIN session_state.kpi = DOMAIN session_state.dataframes
  /\ \A nome \in DOMAIN session_state.dataframes :
       \A d \in {session_state.dataframes[nome]} :
         /\ session_state.quadrature[nome] = verifica_quadratura(d)
         /\ session_state.sp[nome] = riclassifica_sp(d, PercDefault)
         /\ session_state.ce[nome] = riclassifica_ce(d)
         /\ \A k \in {calcola_kpi(session_state.sp[nome][2], session_state.sp[nome][1],
                                   session_state.ce[nome], session_state.quadrature[nome])} :
              session_state.kpi[nome] = <<k.kpi, k.semafori>>
  /\ esito # "KeyError"

\* three files with three different sheets, and a report shown
C14_Witness ==
  /\ DOMAIN session_state.dataframes = Nomi
  /\ session_state.dataframes["a.xlsx"] = <<>>
  /\ Len(session_state.dataframes["b.xlsx"]) = 3
  /\ Len(session_state.dataframes["c.xlsx"]) = 2
  /\ session_state.ce["b.xlsx"]["Ricavi"] = Q(3)
  /\ session_state.sp["c.xlsx"][2][PC] = Q(2)
  /\ esito = "report"

===========================================================================
